---- MODULE Spec2Model ----
(***************************************************************************)
(* A model of util/zbin.c: the zinfo directive interpreter that builds a   *)
(* compressed image from an input binary and a stream of 16-byte records.  *)
(*                                                                         *)
(* Arithmetic.  size_t and unsigned long are 64 bits wide on the LP64      *)
(* hosts this utility is built on, while the record fields are uint32_t.   *)
(* The sums the handlers form ( offset + len, output->len + len,           *)
(* value + align - 1 ) therefore never carry out of 64 bits and are        *)
(* modelled as sums of integers.  The two places where the 64-bit width    *)
(* shows are modelled explicitly: align() with a zero alignment (the mask  *)
(* ~( 0 - 1 ) is zero) and the signed difference in the SUBx handler.      *)
(* The width of the patched field (8, 16 or 32 bits) is kept exactly; the  *)
(* addition is carried out byte by byte because a 32-bit unsigned value    *)
(* does not fit the model checker's integers.                              *)
(***************************************************************************)
EXTENDS Integers, Sequences, FiniteSets, TLC

----------------------------------------------------------------------------
(* Bounds of the model *)

\* Largest input file, in bytes
MaxInputLen == 3
\* Largest number of records in the .zinfo file
MaxEntries == 3
\* Largest value carried by a uint32_t record field
MaxField == 3
\* Largest compressed length the compressor reports
MaxPackedLen == 1
\* Largest value and largest power of two ( as an exponent ) align() is
\* tried on by itself
MaxValue == 9
MaxShift == 3

----------------------------------------------------------------------------
(* Program constants *)

\* sizeof ( union zinfo_record )
RecordSize == 16
\* sizeof ( output->buf ), the size of a pointer
PtrSize == 8
\* The fill byte of alloc_output_file()
Sentinel == 255
\* Contents of a byte of memory; Uninit marks a byte of malloc()ed memory
\* that nothing has written yet (its value is indeterminate)
Uninit == -1
ByteVals == { 0, 255 }
\* The values of a byte
Byte == 0 .. 255
Word == 0 .. MaxField

Min(a, b) == IF a < b THEN a ELSE b

----------------------------------------------------------------------------
(* align() *)

\* value with every bit that is set in mask cleared: value & ~mask
RECURSIVE AndNot(_, _)
AndNot(value, mask) ==
    IF value = 0 THEN 0
    ELSE ( IF mask % 2 = 1 THEN 0 ELSE value % 2 )
         + 2 * AndNot ( value \div 2, mask \div 2 )

\* An align that rounds down instead of up
align_down(value, alignment) ==
    IF alignment = 0 THEN 0 ELSE AndNot ( value, alignment - 1 )

\* An align() that leaves the "- 1" out
align_next(value, alignment) ==
    IF alignment = 0 THEN 0 ELSE AndNot ( value + alignment, alignment - 1 )

\* ( ( value + align - 1 ) & ~( align - 1 ) ) in unsigned long arithmetic.
\* With align = 0 the mask ~( 0 - 1 ) is 0, whatever value + 0 - 1 wraps to.
align(value, alignment) ==
    IF alignment = 0 THEN 0
    ELSE AndNot ( value + alignment - 1, alignment - 1 )

----------------------------------------------------------------------------
(* The data model: struct input_file, struct output_file, union zinfo_record *)

\* The input files main() is given: of every length up to MaxInputLen, with
\* bytes that differ from one offset to the next, starting at 0x00 or at 0xff
InputFiles ==
    { [ buf |-> [ k \in 0 .. ( n - 1 ) |-> ( first + 16 * k ) % 256 ], len |-> n ] :
        n \in 0 .. MaxInputLen, first \in ByteVals }

\* The 4-character record types, as ASCII codes
TypeCOPY == << 67, 79, 80, 89 >>
TypePACK == << 80, 65, 67, 75 >>
TypeSUBB == << 83, 85, 66, 66 >>
TypeSUBW == << 83, 85, 66, 87 >>
TypeSUBL == << 83, 85, 66, 76 >>
KnownTypes == { TypeCOPY, TypePACK, TypeSUBB, TypeSUBW, TypeSUBL }

\* The type fields tried: the five known types and each of them with one
\* character replaced by NUL, by its lower-case letter or by 'X'
Replace(ch, how) ==
    CASE how = "NUL" -> 0
      [] how = "lower" -> ch + 32
      [] OTHER -> 88
Types ==
    KnownTypes \cup
    { [ t EXCEPT ![p] = Replace ( t[p], how ) ] :
        t \in KnownTypes, p \in 1 .. 4, how \in { "NUL", "lower", "X" } }

\* union zinfo_record is modelled as a record of the type and the three
\* 32-bit words after it

\* The three views of the union
zinfo_copy(zinfo) ==
    [ type |-> zinfo.type, offset |-> zinfo.word[1],
      len |-> zinfo.word[2], align |-> zinfo.word[3] ]
zinfo_pack(zinfo) ==
    [ type |-> zinfo.type, offset |-> zinfo.word[1],
      len |-> zinfo.word[2], align |-> zinfo.word[3] ]
zinfo_subtract(zinfo) ==
    [ type |-> zinfo.type, offset |-> zinfo.word[1],
      divisor |-> zinfo.word[2], pad |-> zinfo.word[3] ]

\* What a handler returns: the output file as it leaves it, the error it
\* reports ( "OK" for a return of 0 ), the output indices it wrote and the
\* input indices it read
Result(output, err, wrote, read) ==
    [ output |-> output, err |-> err, wrote |-> wrote, read |-> read ]

\* memory as left by storing bytes[1..n] at buf[at .. at+n-1]; a store past
\* the end of the allocation does not land in the buffer
Store(buf, at, bytes) ==
    [ k \in DOMAIN buf |->
        IF k >= at /\ k < at + Len ( bytes ) THEN bytes[k - at + 1] ELSE buf[k] ]

\* The bytes buf[from .. from+n-1] as a sequence
Slice(buf, from, n) == [ k \in 1 .. n |-> buf[from + k - 1] ]

----------------------------------------------------------------------------
(* process_zinfo_copy() *)

\* A copy that takes its bytes from the start of the input
process_zinfo_copy_from_start(input, output, zinfo) ==
    LET copy == zinfo_copy ( zinfo )
        aligned == align ( output.len, copy.align )
    IN  IF ( copy.offset + copy.len ) > input.len
        THEN Result ( output, "InputOverrun", {}, {} )
        ELSE IF ( aligned + copy.len ) > output.max_len
        THEN Result ( [ output EXCEPT !.len = aligned ], "OutputOverrun",
                      {}, {} )
        ELSE Result ( [ output EXCEPT
                          !.buf = Store ( output.buf, aligned,
                                          Slice ( input.buf, 0, copy.len ) ),
                          !.len = aligned + copy.len ],
                      "OK",
                      aligned .. ( aligned + copy.len - 1 ),
                      0 .. ( copy.len - 1 ) )

process_zinfo_copy(input, output, zinfo) ==
    LET copy == zinfo_copy ( zinfo )
        offset == copy.offset
        len == copy.len
        aligned == align ( output.len, copy.align )
    IN  IF ( offset + len ) > input.len
        THEN Result ( output, "InputOverrun", {}, {} )
        ELSE IF ( aligned + len ) > output.max_len
        THEN Result ( [ output EXCEPT !.len = aligned ], "OutputOverrun",
                      {}, {} )
        ELSE Result ( [ output EXCEPT
                          !.buf = Store ( output.buf, aligned,
                                          Slice ( input.buf, offset, len ) ),
                          !.len = aligned + len ],
                      "OK",
                      aligned .. ( aligned + len - 1 ),
                      offset .. ( offset + len - 1 ) )

----------------------------------------------------------------------------
(* process_zinfo_pack() and the compressor it calls *)

\* The compressed bytes are not told apart
PackedByte == 0

\* What one call of the compressor can do: the status it returns and the
\* bytes it stores at its destination before returning
CompressOutcomes ==
    [ status : { "UCL_E_OK", "UCL_E_ERROR" },
      stream : { [ k \in 1 .. n |-> PackedByte ] : n \in 0 .. MaxPackedLen } ]

\* ucl_nrv2b_99_compress ( src, src_len, dst, &dst_len, 0 ): stores the
\* compressed bytes at dst, whatever room there is, and reports their number
ucl_nrv2b_99_compress(src, c) ==
    [ status |-> c.status, dst |-> c.stream, dst_len |-> Len ( c.stream ) ]

\* A pack that rejects a range ending exactly at the end of the input
process_zinfo_pack_ge(input, output, zinfo, c) ==
    LET pack == zinfo_pack ( zinfo )
        aligned == align ( output.len, pack.align )
        packed == ucl_nrv2b_99_compress (
                      Slice ( input.buf, pack.offset, pack.len ), c )
        stored == Store ( output.buf, aligned, packed.dst )
        wrote == aligned .. ( aligned + packed.dst_len - 1 )
        read == pack.offset .. ( pack.offset + pack.len - 1 )
    IN  IF ( pack.offset + pack.len ) >= input.len
        THEN Result ( output, "InputOverrun", {}, {} )
        ELSE IF aligned > output.max_len
        THEN Result ( [ output EXCEPT !.len = aligned ], "OutputOverrun",
                      {}, {} )
        ELSE IF packed.status # "UCL_E_OK"
        THEN Result ( [ output EXCEPT !.buf = stored, !.len = aligned ],
                      "CompressionFailure", wrote, read )
        ELSE IF ( aligned + packed.dst_len ) > output.max_len
        THEN Result ( [ output EXCEPT !.buf = stored,
                                      !.len = aligned + packed.dst_len ],
                      "OutputOverrun", wrote, read )
        ELSE Result ( [ output EXCEPT !.buf = stored,
                                      !.len = aligned + packed.dst_len ],
                      "OK", wrote, read )

\* A pack that does not look at what the compressor returned
process_zinfo_pack_any_status(input, output, zinfo, c) ==
    LET pack == zinfo_pack ( zinfo )
        aligned == align ( output.len, pack.align )
        packed == ucl_nrv2b_99_compress (
                      Slice ( input.buf, pack.offset, pack.len ), c )
        stored == Store ( output.buf, aligned, packed.dst )
        wrote == aligned .. ( aligned + packed.dst_len - 1 )
        read == pack.offset .. ( pack.offset + pack.len - 1 )
    IN  IF ( pack.offset + pack.len ) > input.len
        THEN Result ( output, "InputOverrun", {}, {} )
        ELSE IF aligned > output.max_len
        THEN Result ( [ output EXCEPT !.len = aligned ], "OutputOverrun",
                      {}, {} )
        ELSE IF ( aligned + packed.dst_len ) > output.max_len
        THEN Result ( [ output EXCEPT !.buf = stored,
                                      !.len = aligned + packed.dst_len ],
                      "OutputOverrun", wrote, read )
        ELSE Result ( [ output EXCEPT !.buf = stored,
                                      !.len = aligned + packed.dst_len ],
                      "OK", wrote, read )

\* A pack that sets output->len to the compressed length instead of
\* advancing it
process_zinfo_pack_set_len(input, output, zinfo, c) ==
    LET pack == zinfo_pack ( zinfo )
        aligned == align ( output.len, pack.align )
        packed == ucl_nrv2b_99_compress (
                      Slice ( input.buf, pack.offset, pack.len ), c )
        stored == Store ( output.buf, aligned, packed.dst )
        wrote == aligned .. ( aligned + packed.dst_len - 1 )
        read == pack.offset .. ( pack.offset + pack.len - 1 )
    IN  IF ( pack.offset + pack.len ) > input.len
        THEN Result ( output, "InputOverrun", {}, {} )
        ELSE IF aligned > output.max_len
        THEN Result ( [ output EXCEPT !.len = aligned ], "OutputOverrun",
                      {}, {} )
        ELSE IF packed.status # "UCL_E_OK"
        THEN Result ( [ output EXCEPT !.buf = stored, !.len = aligned ],
                      "CompressionFailure", wrote, read )
        ELSE IF packed.dst_len > output.max_len
        THEN Result ( [ output EXCEPT !.buf = stored,
                                      !.len = packed.dst_len ],
                      "OutputOverrun", wrote, read )
        ELSE Result ( [ output EXCEPT !.buf = stored,
                                      !.len = packed.dst_len ],
                      "OK", wrote, read )

process_zinfo_pack(input, output, zinfo, c) ==
    LET pack == zinfo_pack ( zinfo )
        offset == pack.offset
        len == pack.len
        aligned == align ( output.len, pack.align )
        packed == ucl_nrv2b_99_compress ( Slice ( input.buf, offset, len ), c )
        packed_len == packed.dst_len
        stored == Store ( output.buf, aligned, packed.dst )
        wrote == aligned .. ( aligned + packed_len - 1 )
        read == offset .. ( offset + len - 1 )
    IN  IF ( offset + len ) > input.len
        THEN Result ( output, "InputOverrun", {}, {} )
        ELSE IF aligned > output.max_len
        THEN Result ( [ output EXCEPT !.len = aligned ], "OutputOverrun",
                      {}, {} )
        ELSE IF packed.status # "UCL_E_OK"
        THEN Result ( [ output EXCEPT !.buf = stored, !.len = aligned ],
                      "CompressionFailure", wrote, read )
        ELSE IF ( aligned + packed_len ) > output.max_len
        THEN Result ( [ output EXCEPT !.buf = stored,
                                      !.len = aligned + packed_len ],
                      "OutputOverrun", wrote, read )
        ELSE Result ( [ output EXCEPT !.buf = stored,
                                      !.len = aligned + packed_len ],
                      "OK", wrote, read )

----------------------------------------------------------------------------
(* process_zinfo_subtract() *)

\* A division that rounds toward minus infinity
FloorDiv(a, b) == a \div b

\* Signed division as C performs it: the quotient is truncated toward zero
SignedDiv(a, b) ==
    IF a >= 0 THEN a \div b ELSE - ( ( - a ) \div b )

\* 256 ^ k
RECURSIVE Pow256(_)
Pow256(k) == IF k = 0 THEN 1 ELSE 256 * Pow256 ( k - 1 )

\* Byte k of the two's complement representation of delta
DeltaByte(delta, k) == ( delta \div Pow256 ( k ) ) % 256

\* The little-endian field old (a sequence of datasize bytes) after
\* "*field += delta" in a datasize-byte unsigned type: bytes 0 .. k of the
\* sum and the carry out of byte k
RECURSIVE AddCarry(_, _, _)
AddCarry(old, delta, k) ==
    IF k = 0 THEN 0
    ELSE ( old[k] + DeltaByte ( delta, k - 1 ) + AddCarry ( old, delta, k - 1 ) )
         \div 256
AddDelta(old, delta) ==
    [ k \in 1 .. Len ( old ) |->
        ( old[k] + DeltaByte ( delta, k - 1 ) + AddCarry ( old, delta, k - 1 ) )
        % 256 ]

\* What the build leaves open in one call of the handler: whether a division
\* by zero traps, the quotient it yields where it does not, and for each of
\* the ( up to four ) bytes of the field the value read from it if nothing
\* has written it: whatever the heap held, any byte, each byte its own
Undefined ==
    [ trap : BOOLEAN, quotient : { -1, 0 }, garbage : [ 1 .. 4 -> Byte ] ]

\* A handler that rejects a field ending exactly at output.len
process_zinfo_subtract_ge(input, output, subtract, datasize, ub) ==
    LET offset == subtract.offset
        raw_delta == align ( output.len, subtract.divisor )
                     - align ( input.len, subtract.divisor )
        delta == IF subtract.divisor = 0 THEN ub.quotient
                 ELSE SignedDiv ( raw_delta, subtract.divisor )
        target == [ k \in 1 .. datasize |->
                      IF output.buf[offset + k - 1] = Uninit THEN ub.garbage[k]
                      ELSE output.buf[offset + k - 1] ]
    IN  IF ( offset + datasize ) >= output.len
        THEN Result ( output, "PatchOutOfRange", {}, {} )
        ELSE IF subtract.divisor = 0 /\ ub.trap
        THEN Result ( output, "SIGFPE", {}, {} )
        ELSE Result ( [ output EXCEPT
                          !.buf = Store ( output.buf, offset,
                                          AddDelta ( target, delta ) ) ],
                      "OK", offset .. ( offset + datasize - 1 ), {} )

\* A handler whose range check leaves the width of the field out
process_zinfo_subtract_offset_only(input, output, subtract, datasize, ub) ==
    LET offset == subtract.offset
        raw_delta == align ( output.len, subtract.divisor )
                     - align ( input.len, subtract.divisor )
        delta == IF subtract.divisor = 0 THEN ub.quotient
                 ELSE SignedDiv ( raw_delta, subtract.divisor )
        target == [ k \in 1 .. datasize |->
                      IF ( offset + k - 1 ) \notin DOMAIN output.buf
                      THEN ub.garbage[k]
                      ELSE IF output.buf[offset + k - 1] = Uninit
                      THEN ub.garbage[k]
                      ELSE output.buf[offset + k - 1] ]
    IN  IF offset > output.len
        THEN Result ( output, "PatchOutOfRange", {}, {} )
        ELSE IF subtract.divisor = 0 /\ ub.trap
        THEN Result ( output, "SIGFPE", {}, {} )
        ELSE Result ( [ output EXCEPT
                          !.buf = Store ( output.buf, offset,
                                          AddDelta ( target, delta ) ) ],
                      "OK", offset .. ( offset + datasize - 1 ), {} )

process_zinfo_subtract(input, output, subtract, datasize, ub) ==
    LET offset == subtract.offset
        raw_delta == align ( output.len, subtract.divisor )
                     - align ( input.len, subtract.divisor )
        delta == IF subtract.divisor = 0 THEN ub.quotient
                 ELSE SignedDiv ( raw_delta, subtract.divisor )
        target == [ k \in 1 .. datasize |->
                      IF output.buf[offset + k - 1] = Uninit THEN ub.garbage[k]
                      ELSE output.buf[offset + k - 1] ]
    IN  IF ( offset + datasize ) > output.len
        THEN Result ( output, "PatchOutOfRange", {}, {} )
        ELSE IF subtract.divisor = 0 /\ ub.trap
        THEN Result ( output, "SIGFPE", {}, {} )
        ELSE IF datasize \notin { 1, 2, 4 }
        THEN Result ( output, "UnsupportedDatasize", {}, {} )
        ELSE Result ( [ output EXCEPT
                          !.buf = Store ( output.buf, offset,
                                          AddDelta ( target, delta ) ) ],
                      "OK", offset .. ( offset + datasize - 1 ), {} )

\* A SUBB that patches a 16-bit field
process_zinfo_subb_wide(input, output, zinfo, ub) ==
    process_zinfo_subtract ( input, output, zinfo_subtract ( zinfo ), 2, ub )

process_zinfo_subb(input, output, zinfo, ub) ==
    process_zinfo_subtract ( input, output, zinfo_subtract ( zinfo ), 1, ub )

process_zinfo_subw(input, output, zinfo, ub) ==
    process_zinfo_subtract ( input, output, zinfo_subtract ( zinfo ), 2, ub )

process_zinfo_subl(input, output, zinfo, ub) ==
    process_zinfo_subtract ( input, output, zinfo_subtract ( zinfo ), 4, ub )

----------------------------------------------------------------------------
(* process_zinfo(): the dispatcher *)

\* The C string held in a character array: the characters before its first
\* NUL, or all of them
RECURSIVE CString(_)
CString(chars) ==
    IF chars = << >> \/ Head ( chars ) = 0 THEN << >>
    ELSE << Head ( chars ) >> \o CString ( Tail ( chars ) )

\* strncat ( dest, src, n ): dest followed by at most n characters of src,
\* stopping at a NUL in src
strncat(dest, src, n) ==
    dest \o CString ( SubSeq ( src, 1, Min ( n, Len ( src ) ) ) )

\* strcmp ( a, b ) == 0
strcmp_equal(a, b) == CString ( a ) = CString ( b )

zinfo_processors ==
    << [ type |-> TypeCOPY, process |-> "process_zinfo_copy" ],
       [ type |-> TypePACK, process |-> "process_zinfo_pack" ],
       [ type |-> TypeSUBB, process |-> "process_zinfo_subb" ],
       [ type |-> TypeSUBW, process |-> "process_zinfo_subw" ],
       [ type |-> TypeSUBL, process |-> "process_zinfo_subl" ] >>

\* A dispatcher that compares without regard to case
RECURSIVE UpperCase(_)
UpperCase(chars) ==
    IF chars = << >> THEN << >>
    ELSE << IF Head ( chars ) >= 97 /\ Head ( chars ) <= 122
            THEN Head ( chars ) - 32 ELSE Head ( chars ) >>
         \o UpperCase ( Tail ( chars ) )
processor_nocase(common_type) ==
    LET type == strncat ( << >>, common_type, 4 )
        hits == { i \in DOMAIN zinfo_processors :
                    strcmp_equal ( zinfo_processors[i].type, UpperCase ( type ) ) }
    IN  IF hits = {} THEN "none"
        ELSE zinfo_processors[CHOOSE i \in hits : \A j \in hits : i <= j].process

\* The handler the loop of process_zinfo() selects for a record type: that
\* of the first table entry whose type strcmp() finds equal, or "none"
processor(common_type) ==
    LET type == strncat ( << >>, common_type, 4 )
        hits == { i \in DOMAIN zinfo_processors :
                    strcmp_equal ( zinfo_processors[i].type, type ) }
    IN  IF hits = {} THEN "none"
        ELSE zinfo_processors[CHOOSE i \in hits : \A j \in hits : i <= j].process

\* process_zinfo(): the result of the handler, and which handler it was
Invoked(process, result) ==
    [ process |-> process, output |-> result.output, err |-> result.err,
      wrote |-> result.wrote, read |-> result.read ]
Dispatch(process, input, output, zinfo, c, ub) ==
    CASE process = "process_zinfo_copy" ->
           Invoked ( process, process_zinfo_copy ( input, output, zinfo ) )
      [] process = "process_zinfo_pack" ->
           Invoked ( process, process_zinfo_pack ( input, output, zinfo, c ) )
      [] process = "process_zinfo_subb" ->
           Invoked ( process, process_zinfo_subb ( input, output, zinfo, ub ) )
      [] process = "process_zinfo_subw" ->
           Invoked ( process, process_zinfo_subw ( input, output, zinfo, ub ) )
      [] process = "process_zinfo_subl" ->
           Invoked ( process, process_zinfo_subl ( input, output, zinfo, ub ) )
      [] OTHER ->
           Invoked ( "none", Result ( output, "UnknownDirective", {}, {} ) )
process_zinfo(input, output, zinfo, c, ub) ==
    Dispatch ( processor ( zinfo.type ), input, output, zinfo, c, ub )

\* The records that reach each handler, and the choices a call leaves open
\* (the pad word of a SUBx record, which nothing reads, and the words of a
\* record of unknown type are not varied)
TypesFor(process) == { t \in Types : processor ( t ) = process }
CopyRecords ==
    [ type : TypesFor ( "process_zinfo_copy" ), word : [ 1 .. 3 -> Word ] ]
PackRecords ==
    [ type : TypesFor ( "process_zinfo_pack" ), word : [ 1 .. 3 -> Word ] ]
SubtractRecords ==
    [ type : TypesFor ( "process_zinfo_subb" ) \cup TypesFor ( "process_zinfo_subw" )
             \cup TypesFor ( "process_zinfo_subl" ),
      word : { w \in [ 1 .. 3 -> Word ] : w[3] = 0 } ]
UnknownRecords ==
    [ type : TypesFor ( "none" ), word : { [ k \in 1 .. 3 |-> 0 ] } ]
Records == CopyRecords \cup PackRecords \cup SubtractRecords \cup UnknownRecords
\* The datasize that process_zinfo_subb(), process_zinfo_subw() and
\* process_zinfo_subl() pass to process_zinfo_subtract(), by the last
\* character of the type of the record that reaches them: B, W or L
datasize_for(type) ==
    CASE type[4] = 66 -> 1
      [] type[4] = 87 -> 2
      [] OTHER -> 4
\* What one call of the SUBx handler can meet of the cases the build
\* decides: a trap or a quotient of its own only where the divisor is 0, and
\* a byte of its own for each byte of the field that is read ( the range
\* check has passed ) and that nothing has written
UndefinedFor(out, zinfo) ==
    LET offset == zinfo.word[1]
        datasize == datasize_for ( zinfo.type )
        unwritten ==
            IF ( offset + datasize ) > out.len THEN {}
            ELSE { k \in 1 .. datasize :
                     /\ ( offset + k - 1 ) \in DOMAIN out.buf
                     /\ out.buf[offset + k - 1] = Uninit }
        quotients == IF zinfo.word[2] = 0 THEN { -1, 0 } ELSE { 0 }
    IN  { [ trap |-> FALSE, quotient |-> q,
            garbage |-> [ k \in 1 .. 4 |-> IF k \in unwritten THEN held[k] ELSE 0 ] ] :
            q \in quotients, held \in [ unwritten -> Byte ] }
        \cup ( IF zinfo.word[2] = 0
               THEN { [ trap |-> TRUE, quotient |-> 0,
                        garbage |-> [ k \in 1 .. 4 |-> 0 ] ] }
               ELSE {} )
NoCompress == [ status |-> "UCL_E_OK", stream |-> << >> ]
NoUndefined ==
    [ trap |-> FALSE, quotient |-> 0, garbage |-> [ k \in 1 .. 4 |-> 0 ] ]

----------------------------------------------------------------------------
(* alloc_output_file() and write_output_file() *)

\* The output file after alloc_output_file ( max_len, output ): the memset
\* fills sizeof ( output->buf ) bytes, the rest of the allocation is as
\* malloc() returned it
alloc_output_file(max_len) ==
    [ buf |-> [ k \in 0 .. ( max_len - 1 ) |->
                  IF k < PtrSize THEN Sentinel ELSE Uninit ],
      len |-> 0,
      max_len |-> max_len ]

\* The bytes fwrite ( output->buf, 1, output->len, stdout ) emits
write_output_file(output) == Slice ( output.buf, 0, output.len )

----------------------------------------------------------------------------
(* main() *)

VARIABLES
    pc,           \* where main() is: "Loaded", "Processing", "Finalized",
                  \* "Aborted" ( exit ( 1 ) ) or "Crashed" ( killed by a signal )
    input,        \* struct input_file, as read from the input file
    zinfo_len,    \* length of the .zinfo file in bytes
    num_entries,  \* zinfo.num_entries
    output,       \* struct output_file
    i,            \* the loop counter of main()
    process,      \* the handler the last call of process_zinfo() invoked
    err,          \* what the last step reported ( "OK": it returned 0 )
    wrote,        \* output indices the last step stored to
    stdout,       \* the bytes written to the standard output
    applied,      \* the records process_zinfo() was called for, in order:
                  \* the index of each and what the call reported
    written,      \* the output indices a COPY or PACK has stored to so far
    aligned       \* a call of align() taken on its own: its two arguments,
                  \* its result and the result of align() on that result

vars == << pc, input, zinfo_len, num_entries, output, i, process, err, wrote,
           stdout, applied, written, aligned >>

NoOutput == [ buf |-> << >>, len |-> 0, max_len |-> 0 ]

\* No call of align() is being looked at ( a result is a sequence: empty
\* until it has been computed, then of the one value returned )
NoAlign ==
    [ value |-> 0, alignment |-> 0, result |-> << >>, again |-> << >> ]

Init ==
    /\ pc = "Loaded"
    /\ input \in InputFiles
    /\ zinfo_len \in 0 .. ( RecordSize * MaxEntries )
    /\ num_entries = 0
    /\ output = NoOutput
    /\ i = 0
    /\ process = "none"
    /\ err = "OK"
    /\ wrote = {}
    /\ stdout = << >>
    /\ applied = << >>
    /\ written = {}
    /\ aligned = NoAlign

\* read_zinfo_file() rejects the .zinfo file
FormatError ==
    /\ pc = "Loaded"
    /\ ( zinfo_len % RecordSize ) # 0
    /\ pc' = "Aborted"
    /\ err' = "FormatError"
    /\ UNCHANGED << input, zinfo_len, num_entries, output, i, process, wrote,
                    stdout, applied, written, aligned >>

\* A read_zinfo_file() that does not look at the length of the file and
\* leaves the bytes after the last whole record out
Load_any_length ==
    /\ pc = "Loaded"
    /\ num_entries' = zinfo_len \div RecordSize
    /\ output' = alloc_output_file ( input.len * 4 )
    /\ wrote' = 0 .. ( PtrSize - 1 )
    /\ pc' = "Processing"
    /\ UNCHANGED << input, zinfo_len, i, process, err, stdout, applied,
                    written, aligned >>

\* read_zinfo_file() and alloc_output_file ( input.len * 4 ) succeed
Load ==
    /\ pc = "Loaded"
    /\ ( zinfo_len % RecordSize ) = 0
    /\ num_entries' = zinfo_len \div RecordSize
    /\ output' = alloc_output_file ( input.len * 4 )
    /\ wrote' = 0 .. ( PtrSize - 1 )
    /\ pc' = "Processing"
    /\ UNCHANGED << input, zinfo_len, i, process, err, stdout, applied,
                    written, aligned >>

\* A loop that goes on to the next record whatever process_zinfo() returned
main_pc_ignore(e) == "Processing"
\* Where main() goes after process_zinfo() reported e: on with the loop,
\* exit ( 1 ), or nowhere when the process was killed
main_pc(e) ==
    IF e = "OK" THEN "Processing"
    ELSE IF e = "SIGFPE" THEN "Crashed" ELSE "Aborted"

\* A loop that never advances
main_i_stuck(n, e) == n
\* The loop counter after process_zinfo() reported e
main_i(n, e) == IF e = "OK" THEN n + 1 ELSE n

\* One iteration of the loop of main(): process_zinfo() on record i, which
\* is zinfo, then i++ or exit ( 1 )
Iterate(zinfo, c, ub) ==
    /\ pc = "Processing"
    /\ i < num_entries
    /\ \E r \in { process_zinfo ( input, output, zinfo, c, ub ) } :
        /\ output' = r.output
        /\ err' = r.err
        /\ wrote' = r.wrote
        /\ process' = r.process
        /\ applied' = Append ( applied, [ index |-> i, err |-> r.err ] )
        /\ written' = IF r.process \in { "process_zinfo_copy",
                                          "process_zinfo_pack" }
                      THEN written \cup r.wrote ELSE written
        /\ i' = main_i ( i, r.err )
        /\ pc' = main_pc ( r.err )
    /\ UNCHANGED << input, zinfo_len, num_entries, stdout, aligned >>

Copy ==
    \E zinfo \in CopyRecords :
        Iterate ( zinfo, NoCompress, NoUndefined )

Pack ==
    \E zinfo \in PackRecords, c \in CompressOutcomes :
        Iterate ( zinfo, c, NoUndefined )

Subtract ==
    \E zinfo \in SubtractRecords :
        \E ub \in UndefinedFor ( output, zinfo ) :
            Iterate ( zinfo, NoCompress, ub )

Unknown ==
    \E zinfo \in UnknownRecords :
        Iterate ( zinfo, NoCompress, NoUndefined )

\* The loop is over: write_output_file() and return 0
Finalize ==
    /\ pc = "Processing"
    /\ i = num_entries
    /\ stdout' = write_output_file ( output )
    /\ pc' = "Finalized"
    /\ UNCHANGED << input, zinfo_len, num_entries, output, i, process, err,
                    wrote, applied, written, aligned >>

Next ==
    \/ FormatError
    \/ Load
    \/ Copy
    \/ Pack
    \/ Subtract
    \/ Unknown
    \/ Finalize

Spec == Init /\ [][Next]_vars

----------------------------------------------------------------------------
(* align() on its own *)

\* The alignments tried: every value up to 2 ^ MaxShift, the powers of two
\* among them
RECURSIVE Pow2(_)
Pow2(k) == IF k = 0 THEN 1 ELSE 2 * Pow2 ( k - 1 )
Alignments == 0 .. Pow2 ( MaxShift )
PowersOfTwo == { Pow2 ( k ) : k \in 0 .. MaxShift }

InitAlign ==
    /\ pc = "Loaded"
    /\ input = [ buf |-> << >>, len |-> 0 ]
    /\ zinfo_len = 0
    /\ num_entries = 0
    /\ output = NoOutput
    /\ i = 0
    /\ process = "none"
    /\ err = "OK"
    /\ wrote = {}
    /\ stdout = << >>
    /\ applied = << >>
    /\ written = {}
    /\ aligned \in [ value : 0 .. MaxValue, alignment : Alignments,
                      result : { << >> }, again : { << >> } ]

\* align ( value, alignment )
AlignCall ==
    /\ aligned.result = << >>
    /\ aligned' = [ aligned EXCEPT
                      !.result = << align ( aligned.value, aligned.alignment ) >> ]
    /\ UNCHANGED << pc, input, zinfo_len, num_entries, output, i, process, err,
                    wrote, stdout, applied, written >>

\* align ( align ( value, alignment ), alignment )
AlignAgain ==
    /\ aligned.result # << >>
    /\ aligned.again = << >>
    /\ aligned' = [ aligned EXCEPT
                      !.again = << align ( aligned.result[1], aligned.alignment ) >> ]
    /\ UNCHANGED << pc, input, zinfo_len, num_entries, output, i, process, err,
                    wrote, stdout, applied, written >>

NextAlign ==
    \/ AlignCall
    \/ AlignAgain

SpecAlign == InitAlign /\ [][NextAlign]_vars

----------------------------------------------------------------------------
(* Properties *)

\* main() is about to call process_zinfo() on record i
Running == pc = "Processing" /\ i < num_entries

\* C1: at every observable point of a run, after a handler has failed
\* included, 0 <= output.len <= output.max_len.
C1_LenWithinCapacity ==
    0 <= output.len /\ output.len <= output.max_len

\* C2: the compressor called by PACK stores no byte at an output index
\* at or past output.max_len ( nor below the aligned output.len ).
C2_PackStoresWithinCapacity ==
    process = "process_zinfo_pack" =>
        \A k \in wrote : k < output.max_len /\ k >= output.len - Cardinality ( wrote )

\* C3: a COPY whose input range is out of bounds, and a COPY or PACK whose
\* len does not fit the capacity left after alignment, fail and leave
\* output.len and every output byte as they were.
C3_OverrunLeavesOutputAlone ==
    Running =>
        /\ \A zinfo \in CopyRecords :
             \A r \in { process_zinfo_copy ( input, output, zinfo ) } :
                ( \/ zinfo.word[1] + zinfo.word[2] > input.len
                  \/ align ( output.len, zinfo.word[3] ) + zinfo.word[2]
                       > output.max_len )
                => ( r.err # "OK" /\ r.output = output )
        /\ \A zinfo \in PackRecords, c \in CompressOutcomes :
             \A r \in { process_zinfo_pack ( input, output, zinfo, c ) } :
                ( align ( output.len, zinfo.word[3] ) + zinfo.word[2]
                    > output.max_len )
                => ( r.err # "OK" /\ r.output = output )

\* The postcondition of a successful COPY{offset,len,align} from
\* output.len = L: output.len = align(L, align) + len, and the output bytes
\* from align(L, align) on equal the input bytes from offset on.
C4_CopyPost ==
    Running =>
        \A zinfo \in CopyRecords :
            \A r \in { process_zinfo_copy ( input, output, zinfo ) } :
                r.err = "OK" =>
                    LET offset == zinfo.word[1]
                        len == zinfo.word[2]
                        at == align ( output.len, zinfo.word[3] )
                    IN  /\ r.output.len = at + len
                        /\ \A k \in 0 .. ( len - 1 ) :
                              r.output.buf[at + k] = input.buf[offset + k]
\* C4: a successful COPY{offset,len,align} from output.len = L leaves
\* output.len = align(L, align) + len and output bytes
\* [align(L, align), align(L, align) + len) equal to input bytes
\* [offset, offset + len); no step changes the input buffer.
C4_CopyPreservesBytes == [] C4_CopyPost /\ [][input' = input]_vars
C4_Witness ==
    /\ process = "process_zinfo_copy" /\ err = "OK"
    /\ Cardinality ( wrote ) >= 2 /\ 0 \notin wrote /\ 1 \notin wrote

\* C5: COPY and PACK report InputOverrun exactly when offset + len, the sum
\* of the two fields as integers, exceeds input.len, and neither ever reads
\* an input byte at an index >= input.len.
C5_InputOverrunExact ==
    Running =>
        /\ \A zinfo \in CopyRecords :
             \A r \in { process_zinfo_copy ( input, output, zinfo ) } :
                /\ r.err = "InputOverrun"
                     <=> zinfo.word[1] + zinfo.word[2] > input.len
                /\ \A k \in r.read : k < input.len
        /\ \A zinfo \in PackRecords, c \in CompressOutcomes :
             \A r \in { process_zinfo_pack ( input, output, zinfo, c ) } :
                /\ r.err = "InputOverrun"
                     <=> zinfo.word[1] + zinfo.word[2] > input.len
                /\ \A k \in r.read : k < input.len
C5_Witness ==
    /\ process = "process_zinfo_pack" /\ err = "InputOverrun"
    /\ input.len = MaxInputLen

\* The width of the field a SUBx record patches, read off its type
Width(type) ==
    CASE type[4] = 66 -> 1
      [] type[4] = 87 -> 2
      [] type[4] = 76 -> 4

\* C6: SUBB/SUBW/SUBL report PatchOutOfRange exactly when offset + datasize
\* exceeds output.len as it is when the record is processed, and then leave
\* output.len and every output byte as they were.
C6_PatchOutOfRangeExact ==
    Running =>
        \A zinfo \in SubtractRecords :
            \A ub \in UndefinedFor ( output, zinfo ) :
                \A r \in { process_zinfo ( input, output, zinfo, NoCompress, ub ) } :
                    /\ r.err = "PatchOutOfRange"
                         <=> zinfo.word[1] + Width ( zinfo.type ) > output.len
                    /\ r.err = "PatchOutOfRange" => r.output = output
C6_Witness ==
    /\ process = "process_zinfo_subl" /\ err = "PatchOutOfRange"
    /\ output.len > 0

\* The quotient of a by b > 0 truncated toward zero: the q with
\* a = q * b + rem, where |rem| < b and rem has the sign of a
Truncated(a, b) ==
    CHOOSE q \in ( - ( a * a ) - 1 ) .. ( a * a + 1 ) :
        \E rem \in ( 1 - b ) .. ( b - 1 ) :
            /\ a = q * b + rem
            /\ ( a >= 0 => rem >= 0 )
            /\ ( a <= 0 => rem <= 0 )

\* The unsigned value of a little-endian field of one or two bytes
Value16(bytes) ==
    IF Len ( bytes ) = 1 THEN bytes[1] ELSE bytes[1] + 256 * bytes[2]

\* old is changed into new as by adding delta modulo 2 ^ ( 8 * n ), n the
\* number of bytes; a 4-byte field is compared as two 16-bit halves
AddedModulo(old, new, delta) ==
    IF Len ( old ) = 1
    THEN Value16 ( new ) = ( Value16 ( old ) + delta ) % 256
    ELSE IF Len ( old ) = 2
    THEN Value16 ( new ) = ( Value16 ( old ) + delta ) % 65536
    ELSE LET lo == Value16 ( SubSeq ( old, 1, 2 ) ) + delta
         IN  /\ Value16 ( SubSeq ( new, 1, 2 ) ) = lo % 65536
             /\ Value16 ( SubSeq ( new, 3, 4 ) )
                  = ( Value16 ( SubSeq ( old, 3, 4 ) ) + ( lo \div 65536 ) ) % 65536

\* C7: a successful SUBx of width datasize replaces the unsigned field old
\* at output.buf[offset] by ( old + delta ) mod 2 ^ ( 8 * datasize ), with
\* delta = ( align(output.len, divisor) - align(input.len, divisor) )
\* / divisor truncated toward zero ( for a divisor other than 0, where the
\* quotient is defined ).
C7_SubtractAddsDelta ==
    Running =>
        \A zinfo \in { z \in SubtractRecords : z.word[2] # 0 } :
            \A ub \in UndefinedFor ( output, zinfo ) :
                \A r \in { process_zinfo ( input, output, zinfo, NoCompress, ub ) } :
                    r.err = "OK" =>
                        LET offset == zinfo.word[1]
                            divisor == zinfo.word[2]
                            datasize == Width ( zinfo.type )
                            delta == Truncated ( align ( output.len, divisor )
                                                 - align ( input.len, divisor ),
                                                 divisor )
                            old == [ k \in 1 .. datasize |->
                                       IF output.buf[offset + k - 1] = Uninit
                                       THEN ub.garbage[k]
                                       ELSE output.buf[offset + k - 1] ]
                            new == Slice ( r.output.buf, offset, datasize )
                        IN  /\ AddedModulo ( old, new, delta )
                            /\ ( delta = 0 => new = old )
\* a SUBW has borrowed from the second byte: 0x1000 - 1 = 0x0fff
C7_Witness ==
    /\ process = "process_zinfo_subw" /\ err = "OK" /\ wrote = { 0, 1 }
    /\ input.len > 0 /\ input.buf[0] = 0
    /\ output.buf[0] = 255 /\ output.buf[1] = 15

\* C8: process_zinfo() invokes the handler of COPY, PACK, SUBB, SUBW or SUBL
\* exactly when the four bytes of the record type are the four characters
\* of that name; any other type is an UnknownDirective and leaves the
\* output alone.
C8_DispatchExact ==
    Running =>
        \A type \in Types :
            \A r \in { process_zinfo ( input, output,
                                       [ type |-> type,
                                         word |-> [ k \in 1 .. 3 |-> 0 ] ],
                                       NoCompress, NoUndefined ) } :
                /\ \A p \in DOMAIN zinfo_processors :
                      r.process = zinfo_processors[p].process
                      <=> \A n \in 1 .. 4 : type[n] = zinfo_processors[p].type[n]
                /\ type \notin KnownTypes =>
                      /\ r.process = "none"
                      /\ r.err = "UnknownDirective"
                      /\ r.output = output
C8_Witness ==
    /\ process = "none" /\ err = "UnknownDirective" /\ pc = "Aborted"
    /\ output.len > 0

\* What a handler or the dispatcher reports when a record fails
DirectiveErrors ==
    { "InputOverrun", "OutputOverrun", "CompressionFailure", "PatchOutOfRange",
      "UnsupportedDatasize", "UnknownDirective" }

\* What C9 says of each state
C9_State ==
    /\ err \in DirectiveErrors => pc = "Aborted"
    /\ pc # "Finalized" => stdout = << >>
    /\ pc = "Finalized" =>
          /\ stdout = [ k \in 1 .. output.len |-> output.buf[k - 1] ]
          /\ \A k \in DOMAIN applied : applied[k].err = "OK"
\* C9: once a record has failed the run is Aborted, no step follows an
\* Aborted state ( no later record is processed ), and nothing is written
\* to the standard output except in Finalized, where it is exactly
\* buf[0:len].
C9_FailFast == [] C9_State /\ [][pc # "Aborted"]_vars
C9_Witness ==
    /\ pc = "Aborted" /\ err = "PatchOutOfRange" /\ Len ( applied ) = 2
    /\ num_entries = 3 /\ output.len > 0

\* C10: the records are processed in the order of the file, each at most
\* once, and record i only after records 0 .. i-1 have all succeeded.
C10_InOrder ==
    \A k \in DOMAIN applied :
        /\ applied[k].index = k - 1
        /\ k < Len ( applied ) => applied[k].err = "OK"
C10_Witness ==
    /\ pc = "Finalized" /\ Len ( applied ) = MaxEntries /\ output.len > 0

\* C11: for every value v and every power-of-two a, align(v, a) >= v,
\* align(v, a) mod a = 0 and align(align(v, a), a) = align(v, a).
C11_AlignRoundsUp ==
    ( aligned.alignment \in PowersOfTwo /\ aligned.result # << >> ) =>
        /\ aligned.result[1] >= aligned.value
        /\ aligned.result[1] % aligned.alignment = 0
        /\ aligned.again # << >> => aligned.again = aligned.result
\* align ( 5, 4 ) = 8 has been aligned again
C11_Witness ==
    /\ aligned.value = 5 /\ aligned.alignment = 4
    /\ aligned.result = << 8 >> /\ aligned.again # << >>

\* C12: a .zinfo file whose length is not a multiple of 16 bytes is a
\* fatal format error: the run aborts with no record applied, no output
\* buffer touched and nothing written to the standard output.
C12_FormatErrorFatal ==
    /\ ( ( zinfo_len % 16 ) # 0 /\ pc # "Loaded" ) =>
          /\ pc = "Aborted" /\ err = "FormatError"
          /\ applied = << >> /\ stdout = << >> /\ output = NoOutput
    /\ err = "FormatError" => ( zinfo_len % 16 ) # 0
C12_Witness ==
    /\ pc = "Aborted" /\ err = "FormatError"
    /\ zinfo_len > 16 /\ input.len > 0

\* C13: across every step on a record, whatever its align, len and divisor
\* fields, output.len after the step is >= output.len before it, and a
\* SUBx leaves it equal.
C13_LenMonotonic ==
    Running =>
        /\ \A zinfo \in CopyRecords :
             \A r \in { process_zinfo_copy ( input, output, zinfo ) } :
                r.output.len >= output.len
        /\ \A zinfo \in PackRecords, c \in CompressOutcomes :
             \A r \in { process_zinfo_pack ( input, output, zinfo, c ) } :
                r.output.len >= output.len
        /\ \A zinfo \in SubtractRecords :
             \A ub \in UndefinedFor ( output, zinfo ) :
                \A r \in { process_zinfo ( input, output, zinfo, NoCompress, ub ) } :
                    r.output.len = output.len
\* C13 as amended: the same for every record whose align field is not 0
\* ( a COPY or PACK with align = 0 restarts the output at index 0 ).
C13_LenMonotonicNonzeroAlign ==
    Running =>
        /\ \A zinfo \in { z \in CopyRecords : z.word[3] # 0 } :
             \A r \in { process_zinfo_copy ( input, output, zinfo ) } :
                r.output.len >= output.len
        /\ \A zinfo \in { z \in PackRecords : z.word[3] # 0 },
              c \in CompressOutcomes :
             \A r \in { process_zinfo_pack ( input, output, zinfo, c ) } :
                r.output.len >= output.len
        /\ \A zinfo \in SubtractRecords :
             \A ub \in UndefinedFor ( output, zinfo ) :
                \A r \in { process_zinfo ( input, output, zinfo, NoCompress, ub ) } :
                    r.output.len = output.len
\* a PACK has advanced an output.len that was not 0, a SUBx has followed
C13_Witness ==
    /\ Len ( applied ) = 3 /\ err = "OK"
    /\ process = "process_zinfo_subw" /\ output.len = 4

\* C14: a COPY or PACK executed at output.len = L, whatever its fields,
\* stores to no output index below L and leaves every byte below L as it
\* was.
C14_AppendOnly ==
    Running =>
        /\ \A zinfo \in CopyRecords :
             \A r \in { process_zinfo_copy ( input, output, zinfo ) } :
                /\ \A k \in r.wrote : k >= output.len
                /\ \A k \in 0 .. ( output.len - 1 ) :
                      r.output.buf[k] = output.buf[k]
        /\ \A zinfo \in PackRecords, c \in CompressOutcomes :
             \A r \in { process_zinfo_pack ( input, output, zinfo, c ) } :
                /\ \A k \in r.wrote : k >= output.len
                /\ \A k \in 0 .. ( output.len - 1 ) :
                      r.output.buf[k] = output.buf[k]
\* C14 as amended: the same for every COPY or PACK whose align field is
\* not 0 ( with align = 0 the bytes are stored from index 0 on ).
C14_AppendOnlyNonzeroAlign ==
    Running =>
        /\ \A zinfo \in { z \in CopyRecords : z.word[3] # 0 } :
             \A r \in { process_zinfo_copy ( input, output, zinfo ) } :
                /\ \A k \in r.wrote : k >= output.len
                /\ \A k \in 0 .. ( output.len - 1 ) :
                      r.output.buf[k] = output.buf[k]
        /\ \A zinfo \in { z \in PackRecords : z.word[3] # 0 },
              c \in CompressOutcomes :
             \A r \in { process_zinfo_pack ( input, output, zinfo, c ) } :
                /\ \A k \in r.wrote : k >= output.len
                /\ \A k \in 0 .. ( output.len - 1 ) :
                      r.output.buf[k] = output.buf[k]
\* a PACK has stored its bytes after those of an earlier record
C14_Witness ==
    /\ process = "process_zinfo_pack" /\ err = "OK" /\ Len ( applied ) = 2
    /\ wrote # {} /\ 0 \notin wrote

\* C15: every byte a successful SUBx modifies was stored by a COPY or PACK
\* earlier in the run ( it is never a byte of alignment padding or any
\* other byte no record has written ).
C15_PatchesWrittenBytes ==
    Running =>
        \A zinfo \in SubtractRecords :
            \A ub \in UndefinedFor ( output, zinfo ) :
                \A r \in { process_zinfo ( input, output, zinfo, NoCompress, ub ) } :
                    r.err = "OK" => r.wrote \subseteq written
\* C15 as amended: every byte a successful SUBx modifies lies below
\* output.len ( stored by an earlier COPY or PACK, or skipped by the
\* alignment of one ).
C15_PatchesBelowLen ==
    Running =>
        \A zinfo \in SubtractRecords :
            \A ub \in UndefinedFor ( output, zinfo ) :
                \A r \in { process_zinfo ( input, output, zinfo, NoCompress, ub ) } :
                    r.err = "OK" =>
                        /\ r.wrote # {}
                        /\ \A k \in r.wrote : 0 <= k /\ k < output.len
\* a SUBB has patched a byte of padding
C15_Witness ==
    /\ process = "process_zinfo_subb" /\ err = "OK"
    /\ wrote # {} /\ wrote \cap written = {}

\* What C16 says of a SUBx about to be executed
C16_Frame ==
    Running =>
        \A zinfo \in SubtractRecords :
            \A ub \in UndefinedFor ( output, zinfo ) :
                \A r \in { process_zinfo ( input, output, zinfo, NoCompress, ub ) } :
                    r.err = "OK" =>
                        LET patched == zinfo.word[1] ..
                                       ( zinfo.word[1] + Width ( zinfo.type ) - 1 )
                        IN  /\ r.output.len = output.len
                            /\ r.output.max_len = output.max_len
                            /\ DOMAIN r.output.buf = DOMAIN output.buf
                            /\ r.wrote = patched
                            /\ \A k \in ( DOMAIN output.buf ) \ patched :
                                  r.output.buf[k] = output.buf[k]
\* C16: a successful SUBx changes nothing but the datasize bytes at output
\* indices [offset, offset + datasize): output.len, max_len and every other
\* output byte are as before, and so is the input.
C16_SubtractFrame ==
    [] C16_Frame
    /\ [][ process' \in { "process_zinfo_subb", "process_zinfo_subw",
                          "process_zinfo_subl" } => input' = input ]_vars
\* a SUBL has patched the first four of more than four bytes
C16_Witness ==
    /\ process = "process_zinfo_subl" /\ err = "OK"
    /\ wrote = 0 .. 3 /\ output.len > 4

\* C17: when the output buffer has been created, whatever the length of
\* the input, output.len = 0, output.max_len = 4 * input.len, every one of
\* the max_len bytes of the buffer holds 0xff, and no byte outside the
\* buffer has been stored to.
C17_AllocFillsCapacity ==
    ( pc = "Processing" /\ applied = << >> ) =>
        /\ output.len = 0
        /\ output.max_len = 4 * input.len
        /\ DOMAIN output.buf = 0 .. ( output.max_len - 1 )
        /\ \A k \in 0 .. ( output.max_len - 1 ) : output.buf[k] = 255
        /\ \A k \in wrote : k < output.max_len

\* C18: a PACK whose input range is valid and whose call of the compressor
\* ( made when the aligned output.len is within max_len ) reports success
\* leaves output.len = align(L, align) + the compressed length reported,
\* and fails with OutputOverrun exactly when that exceeds max_len; when the
\* call reports any other status the PACK fails with CompressionFailure.
C18_PackAdvances ==
    Running =>
        \A zinfo \in PackRecords, c \in CompressOutcomes :
            \A r \in { process_zinfo_pack ( input, output, zinfo, c ) } :
                LET at == align ( output.len, zinfo.word[3] )
                    called == /\ zinfo.word[1] + zinfo.word[2] <= input.len
                              /\ at <= output.max_len
                IN  /\ ( called /\ c.status = "UCL_E_OK" ) =>
                          /\ r.output.len = at + Len ( c.stream )
                          /\ r.err \in { "OK", "OutputOverrun" }
                          /\ r.err = "OutputOverrun"
                                <=> at + Len ( c.stream ) > output.max_len
                    /\ ( called /\ c.status # "UCL_E_OK" ) =>
                          r.err = "CompressionFailure"
                    /\ r.err = "CompressionFailure" =>
                          ( called /\ c.status # "UCL_E_OK" )
\* the compressed bytes of a PACK did not fit
C18_Witness ==
    /\ process = "process_zinfo_pack" /\ err = "OutputOverrun"
    /\ wrote # {} /\ output.max_len > 0 /\ output.len > output.max_len

\* C19: every run terminates in Finalized or in Aborted after at most one
\* call of process_zinfo() for each record of the .zinfo file: a run that
\* can take no further step is in one of the two, and the calls made are
\* of distinct records of the file ( so that a run has at most
\* num_entries + 2 steps ).
C19_Terminates ==
    /\ ( ~ ENABLED Next ) => pc \in { "Finalized", "Aborted" }
    /\ Len ( applied ) <= num_entries
    /\ \A j, k \in DOMAIN applied :
          applied[j].index = applied[k].index => j = k
    /\ \A k \in DOMAIN applied : applied[k].index < num_entries

\* C20: the delta of a SUBx is defined whatever the divisor field: a SUBx
\* never divides by zero, so that one whose divisor is 0 and whose offset
\* passes the range check ends in success or in one of the errors of the
\* program, with a result that does not depend on the build.
C20_NoDivisionByZero ==
    Running =>
        \A zinfo \in SubtractRecords :
            \A ub \in UndefinedFor ( output, zinfo ) :
                \A r \in { process_zinfo ( input, output, zinfo, NoCompress, ub ) } :
                    /\ r.err \in { "OK" } \cup DirectiveErrors
                    /\ \A other \in UndefinedFor ( output, zinfo ) :
                          other.garbage = ub.garbage =>
                              process_zinfo ( input, output, zinfo, NoCompress,
                                              other ).output = r.output

====
